---- MODULE Spec2Model ----
(***************************************************************************)
(* Model of the sequence-producing core of the text recognizer:            *)
(*   - LineCNNSimple.forward         (lab5/models/line_cnn_simple.py)      *)
(*   - PositionalEncoding (2-D, 1-D) (lab7/models/transformer_util.py)     *)
(*   - generate_square_subsequent_mask (same file)                         *)
(* Tensors are records [shape, at]: shape is the tuple of dimension sizes  *)
(* and at maps every 0-based index tuple to the element stored there.      *)
(* Real numbers that the code obtains from sin/cos are kept as terms.      *)
(***************************************************************************)
EXTENDS Integers, Sequences, FiniteSets, TLC

(* ------------------------------ bounds -------------------------------- *)
MaxW == 6
MaxWW == 3
MaxWS == 3
MaxL == 3
MaxB == 1
MaxSize == 4
MaxNeg == 1
MaxD == 8
MaxD1 == 4
MaxHW == 2
MaxLen == 2

NumClasses == 2

(* ------------------------- program constants -------------------------- *)
WINDOW_WIDTH == 28
WINDOW_STRIDE == 28
\* imported from .cnn; forward only compares the height with it
IMAGE_SIZE == 28

(* ------------------------- input domains ------------------------------ *)
Widths == (0..MaxW) \cup {WINDOW_WIDTH, 3 * WINDOW_WIDTH}
WindowWidths == (1..MaxWW) \cup {WINDOW_WIDTH}
WindowStrides == (1..MaxWS) \cup {WINDOW_STRIDE}
Heights == {IMAGE_SIZE, IMAGE_SIZE + 1}

VARIABLES op, pc, self, x, S, s, activations, calls, writes, ret, err,
          size, cfg, pe, inp, training

vars == <<op, pc, self, x, S, s, activations, calls, writes, ret, err,
          size, cfg, pe, inp, training>>

encVars == <<self, x, S, s, activations, calls, writes>>
peVars == <<cfg, pe, inp, training>>

NoTensor == [shape |-> <<>>, at |-> <<>>]
NoSelf == [WW |-> 0, WS |-> 0, limit_output_length |-> FALSE,
           output_length |-> 0, num_classes |-> 0]
NoX == [B |-> 0, C |-> 0, H |-> 0, W |-> 0]
NoCfg == [d_model |-> 0, max_h |-> 0, max_w |-> 0, max_len |-> 0]

(* ----------------------- helpers of the runtime ----------------------- *)
Min(a, b) == IF a <= b THEN a ELSE b

\* math.floor(num / den + 1) for integers num and den > 0
FloorPlusOne(num, den) == (num \div den) + 1

\* the columns selected by the slice start:stop of an axis of length n
\* (Python clamps both ends to the axis)
Slice(n, start, stop) ==
    LET lo == Min(start, n)
        hi == Min(stop, n)
    IN  [i \in 1..(IF hi > lo THEN hi - lo ELSE 0) |-> lo + i - 1]

\* the per-window feature extractor, an opaque function of the window
cnn(window) == [fn |-> "cnn", of |-> window]

ZeroVec == [fn |-> "zeros", of |-> <<>>]

\* torch.zeros((B, num_classes, n)) seen along its sequence axis
zeros(B, nc, n) == [shape |-> <<B, nc, n>>, at |-> [k \in 0..(n - 1) |-> ZeroVec]]

(* ------------------------------ tensors ------------------------------- *)
\* the index tuples of a tensor of the given shape (rank 1 to 4)
Idx(shape) ==
    CASE Len(shape) = 1 -> {<<i>> : i \in 0..(shape[1] - 1)}
      [] Len(shape) = 2 -> (0..(shape[1] - 1)) \X (0..(shape[2] - 1))
      [] Len(shape) = 3 ->
            (0..(shape[1] - 1)) \X (0..(shape[2] - 1)) \X (0..(shape[3] - 1))
      [] Len(shape) = 4 ->
            (0..(shape[1] - 1)) \X (0..(shape[2] - 1)) \X (0..(shape[3] - 1))
               \X (0..(shape[4] - 1))

\* outcome of a call: a value or a raised exception
Ok(v) == [ok |-> TRUE, val |-> v, exc |-> "none"]
Raise(e) == [ok |-> FALSE, val |-> NoTensor, exc |-> e]

\* a shape is left-padded with 1s when it broadcasts against a longer one
PadShape(shape, n) ==
    [i \in 1..n |-> IF i <= n - Len(shape) THEN 1 ELSE shape[i - (n - Len(shape))]]

\* src can be broadcast to exactly the shape tgt
BroadcastableTo(src, tgt) ==
    /\ Len(src) <= Len(tgt)
    /\ LET p == PadShape(src, Len(tgt))
       IN  \A i \in 1..Len(tgt) : p[i] = tgt[i] \/ p[i] = 1

\* the two shapes broadcast against each other
Broadcastable(a, b) ==
    LET n == IF Len(a) >= Len(b) THEN Len(a) ELSE Len(b)
        pa == PadShape(a, n)
        pb == PadShape(b, n)
    IN  \A i \in 1..n : pa[i] = pb[i] \/ pa[i] = 1 \/ pb[i] = 1

BroadcastShape(a, b) ==
    LET n == IF Len(a) >= Len(b) THEN Len(a) ELSE Len(b)
        pa == PadShape(a, n)
        pb == PadShape(b, n)
    IN  [i \in 1..n |-> IF pa[i] = 1 THEN pb[i] ELSE pa[i]]

\* the element of t that the index idx of a broadcast result reads
BroadcastAt(t, idx) ==
    LET n == Len(idx)
        k == n - Len(t.shape)
    IN  t.at[[i \in 1..Len(t.shape) |->
                 IF t.shape[i] = 1 THEN 0 ELSE idx[i + k]]]

\* Tensor.permute(*dims), dims 0-based
permute(t, dims) ==
    LET shp == [i \in 1..Len(dims) |-> t.shape[dims[i] + 1]]
        inv(j) == CHOOSE i \in 1..Len(dims) : dims[i] + 1 = j
    IN  [shape |-> shp,
         at |-> [idx \in Idx(shp) |->
                    t.at[[j \in 1..Len(dims) |-> idx[inv(j)]]]]]

\* Tensor.transpose(0, 1) of a matrix
transpose(t) == permute(t, <<1, 0>>)

\* Tensor.expand(*sizes): -1 keeps a dimension, a dimension of size 1 is
\* repeated
expand(t, sizes) ==
    LET shp == [i \in 1..Len(sizes) |->
                   IF sizes[i] = -1 THEN t.shape[i] ELSE sizes[i]]
    IN  [shape |-> shp, at |-> [idx \in Idx(shp) |-> BroadcastAt(t, idx)]]

\* torch.cat([a, b], dim=0)
cat0(a, b) ==
    LET shp == [a.shape EXCEPT ![1] = a.shape[1] + b.shape[1]]
    IN  [shape |-> shp,
         at |-> [idx \in Idx(shp) |->
                    IF idx[1] < a.shape[1]
                    THEN a.at[idx]
                    ELSE b.at[[idx EXCEPT ![1] = idx[1] - a.shape[1]]]]]

\* Tensor.unsqueeze(1) of a matrix
unsqueeze1(t) ==
    LET shp == <<t.shape[1], 1, t.shape[2]>>
    IN  [shape |-> shp,
         at |-> [idx \in Idx(shp) |-> t.at[<<idx[1], idx[3]>>]]]

(* ---------------- generate_square_subsequent_mask --------------------- *)
\* torch.ones(n, n)
ones(n) == [shape |-> <<n, n>>, at |-> [idx \in Idx(<<n, n>>) |-> "1.0"]]

tril(t) ==
    [t EXCEPT !.at = [idx \in DOMAIN t.at |->
                         IF idx[2] > idx[1] THEN "0.0" ELSE t.at[idx]]]

\* torch.triu: the elements below the main diagonal become zero
triu(t) ==
    [t EXCEPT !.at = [idx \in DOMAIN t.at |->
                         IF idx[2] < idx[1] THEN "0.0" ELSE t.at[idx]]]

\* float tensor == 1
EqOne(t) == [t EXCEPT !.at = [idx \in DOMAIN t.at |-> t.at[idx] = "1.0"]]

\* bool tensor == v for v in {0, 1}: True counts as 1, False as 0
BoolEq(t, v) ==
    [t EXCEPT !.at = [idx \in DOMAIN t.at |->
                         (IF t.at[idx] THEN 1 ELSE 0) = v]]

\* bool tensor .float()
float(t) ==
    [t EXCEPT !.at = [idx \in DOMAIN t.at |->
                         IF t.at[idx] THEN "1.0" ELSE "0.0"]]

\* Tensor.masked_fill(m, v)
masked_fill(t, m, v) ==
    [t EXCEPT !.at = [idx \in DOMAIN t.at |->
                         IF m.at[idx] THEN v ELSE t.at[idx]]]

generate_square_subsequent_mask(n) ==
    IF n < 0
    THEN Raise("RuntimeError")
    ELSE LET mask == transpose(EqOne(triu(ones(n))))
         IN  Ok(masked_fill(masked_fill(float(mask), BoolEq(mask, 0), "-inf"),
                            BoolEq(mask, 1), "0.0"))

(* ----------------------- PositionalEncoding --------------------------- *)
\* len(torch.arange(0, d, 2))
DivTermLen(d) == (d + 1) \div 2

\* the real number 0.0 of torch.zeros
Zero == [fn |-> "zero", pos |-> 0, k |-> 0, d |-> 0]

\* torch.zeros(n, d)
zeros2(n, d) == [shape |-> <<n, d>>, at |-> [idx \in Idx(<<n, d>>) |-> Zero]]

\* fn(position * div_term): position is (max_len, 1) holding p, div_term is
\* (DivTermLen(d),) holding exp(2k * (-ln 10000 / d)); the product has shape
\* (max_len, DivTermLen(d)) and its element (p, k) is kept as the term
\* fn(p * exp(2k * (-ln 10000 / d)))
Angles(fn, max_len, d) ==
    [shape |-> <<max_len, DivTermLen(d)>>,
     at |-> [idx \in Idx(<<max_len, DivTermLen(d)>>) |->
                [fn |-> fn, pos |-> idx[1], k |-> idx[2], d |-> d]]]

\* t[:, start::2] = value, value being broadcast to the selected columns (a
\* dimension of size 1 broadcasts to any size, 0 included)
SetColumns(t, start, value) ==
    LET cols == {c \in 0..(t.shape[2] - 1) : c >= start /\ (c - start) % 2 = 0}
        tgt == <<t.shape[1], Cardinality(cols)>>
    IN  IF ~BroadcastableTo(value.shape, tgt)
        THEN Raise("RuntimeError")
        ELSE Ok([t EXCEPT !.at =
                    [idx \in DOMAIN t.at |->
                        IF idx[2] \in cols
                        THEN BroadcastAt(value, <<idx[1], (idx[2] - start) \div 2>>)
                        ELSE t.at[idx]]])

\* PositionalEncoding.make_pe(d_model, max_len), the 1-D table
make_pe(d_model, max_len) ==
    IF d_model = 0
    THEN Raise("ZeroDivisionError")
    ELSE LET r1 == SetColumns(zeros2(max_len, d_model), 0,
                              Angles("sin", max_len, d_model))
         IN  IF ~r1.ok
             THEN r1
             ELSE LET r2 == SetColumns(r1.val, 1, Angles("cos", max_len, d_model))
                  IN  IF ~r2.ok THEN r2 ELSE Ok(unsqueeze1(r2.val))

make_pe_2d_Swapped(d_model, max_h, max_w) ==
    LET rh == make_pe(d_model \div 2, max_h)
        rw == make_pe(d_model \div 2, max_w)
    IN  IF ~rh.ok THEN rh
        ELSE IF ~rw.ok THEN rw
        ELSE Ok(cat0(expand(permute(rw.val, <<2, 1, 0>>), <<-1, max_h, -1>>),
                     expand(permute(rh.val, <<2, 0, 1>>), <<-1, -1, max_w>>)))

\* make_pe(d_model, max_h, max_w) of the 2-D encoder: the name
\* PositionalEncoding in its body is bound to the 1-D class
make_pe_2d(d_model, max_h, max_w) ==
    LET rh == make_pe(d_model \div 2, max_h)
        rw == make_pe(d_model \div 2, max_w)
    IN  IF ~rh.ok THEN rh
        ELSE IF ~rw.ok THEN rw
        ELSE Ok(cat0(expand(permute(rh.val, <<2, 0, 1>>), <<-1, -1, max_w>>),
                     expand(permute(rw.val, <<2, 1, 0>>), <<-1, max_h, -1>>)))

\* __init__ of the 2-D encoder
init_2d(d_model, max_h, max_w) ==
    IF d_model % 2 # 0
    THEN Raise("AssertionError")
    ELSE make_pe_2d(d_model, max_h, max_w)

\* an input tensor of the given shape with arbitrary elements
Input(shape) ==
    [shape |-> shape, at |-> [idx \in Idx(shape) |-> [fn |-> "x", of |-> idx]]]

\* t[: lim[1], : lim[2], ...], -1 standing for a full slice
SliceTo(t, lim) ==
    LET shp == [i \in 1..Len(lim) |->
                   IF lim[i] = -1 THEN t.shape[i] ELSE Min(t.shape[i], lim[i])]
    IN  [shape |-> shp, at |-> [idx \in Idx(shp) |-> t.at[idx]]]

\* a + b with broadcasting
add(a, b) ==
    IF ~Broadcastable(a.shape, b.shape)
    THEN Raise("RuntimeError")
    ELSE LET shp == BroadcastShape(a.shape, b.shape)
         IN  Ok([shape |-> shp,
                 at |-> [idx \in Idx(shp) |->
                            [fn |-> "add", l |-> BroadcastAt(a, idx),
                             r |-> BroadcastAt(b, idx)]]])

DepthOK_2d_Unchecked(xs, ps) == TRUE

\* the condition of: assert x.shape[1] == self.pe.shape[0]
DepthOK_2d(xs, ps) == xs[2] = ps[1]

\* forward of the 2-D encoder
forward_2d(table, xin) ==
    IF ~DepthOK_2d(xin.shape, table.shape)
    THEN Raise("AssertionError")
    ELSE add(xin, SliceTo(table, <<-1, xin.shape[3], xin.shape[4]>>))

DepthOK_1d_Unchecked(xs, ps) == TRUE

\* the condition of: assert x.shape[2] == self.pe.shape[2]
DepthOK_1d(xs, ps) == xs[3] = ps[3]

\* torch.nn.Dropout: in training mode the elements of drop become zero and
\* the others are rescaled; in evaluation mode it is the identity
dropout(t, train, drop) ==
    IF ~train
    THEN t
    ELSE [t EXCEPT !.at = [idx \in DOMAIN t.at |->
                              IF idx \in drop
                              THEN [fn |-> "zero", of |-> <<>>]
                              ELSE [fn |-> "scale", of |-> t.at[idx]]]]

\* forward of the 1-D encoder
forward_1d(table, xin, train, drop) ==
    IF ~DepthOK_1d(xin.shape, table.shape)
    THEN Raise("AssertionError")
    ELSE LET r == add(xin, SliceTo(table, <<xin.shape[1], -1, -1>>))
         IN  IF ~r.ok THEN r ELSE Ok(dropout(r.val, train, drop))

(* --------------------------- LineCNNSimple ---------------------------- *)
Init ==
    /\ op = "none"
    /\ pc = "idle"
    /\ size = 0
    /\ cfg = NoCfg
    /\ pe = NoTensor
    /\ inp = NoTensor
    /\ training = FALSE
    /\ self = NoSelf
    /\ x = NoX
    /\ S = 0
    /\ s = 0
    /\ activations = NoTensor
    /\ calls = <<>>
    /\ writes = <<>>
    /\ ret = NoTensor
    /\ err = "none"

\* model(x): a model built with (WW, WS, limit_output_length, output_length)
\* receives an image of shape (B, C, H, W)
Forward_Call ==
    /\ pc = "idle"
    /\ op' = "forward"
    /\ \E WW \in WindowWidths, WS \in WindowStrides, lim \in BOOLEAN,
          L \in 1..MaxL, B \in 1..MaxB, H \in Heights, W \in Widths :
          /\ self' = [WW |-> WW, WS |-> WS, limit_output_length |-> lim,
                      output_length |-> L, num_classes |-> NumClasses]
          /\ x' = [B |-> B, C |-> 1, H |-> H, W |-> W]
    /\ pc' = "assert_H"
    /\ UNCHANGED <<S, s, activations, calls, writes, ret, err, size, peVars>>

HeightOK_Unchecked(H) == TRUE

\* the condition of: assert H == IMAGE_SIZE
HeightOK(H) == H = IMAGE_SIZE

\* assert H == IMAGE_SIZE
Forward_AssertH ==
    /\ pc = "assert_H"
    /\ IF HeightOK(x.H)
       THEN pc' = "compute_S" /\ err' = err
       ELSE pc' = "raised" /\ err' = "AssertionError"
    /\ UNCHANGED <<self, x, S, s, activations, calls, writes, ret, op, size, peVars>>

ComputeS_NoPlusOne(W, WW, WS) == (W - WW) \div WS

ComputeS(W, WW, WS) == FloorPlusOne(W - WW, WS)

\* S = math.floor((W - self.WW) / self.WS + 1)
Forward_ComputeS ==
    /\ pc = "compute_S"
    /\ S' = ComputeS(x.W, self.WW, self.WS)
    /\ pc' = "alloc"
    /\ UNCHANGED <<self, x, s, activations, calls, writes, ret, err, op, size, peVars>>

\* activations = torch.zeros((B, self.num_classes, S)): a negative
\* dimension is rejected by the allocator
Forward_Alloc ==
    /\ pc = "alloc"
    /\ IF S < 0
       THEN /\ pc' = "raised"
            /\ err' = "RuntimeError"
            /\ UNCHANGED <<activations, writes, s>>
       ELSE /\ activations' = zeros(x.B, self.num_classes, S)
            /\ writes' = [k \in 0..(S - 1) |-> 0]
            /\ s' = 0
            /\ pc' = "loop"
            /\ err' = err
    /\ UNCHANGED <<self, x, S, calls, ret, op, size, peVars>>

WindowStart_OffByOne(WS, k) == WS * (k + 1)

WindowStart(WS, k) == WS * k
WindowEnd(WS, WW, k) == WindowStart(WS, k) + WW

\* one iteration of: for s in range(S)
Forward_Loop ==
    /\ pc = "loop"
    /\ s < S
    /\ LET start_w == WindowStart(self.WS, s)
           end_w == WindowEnd(self.WS, self.WW, s)
           window == Slice(x.W, start_w, end_w)
       IN  /\ calls' = Append(calls, [s |-> s, start_w |-> start_w,
                                      end_w |-> end_w, window |-> window])
           /\ activations' = [activations EXCEPT !.at[s] = cnn(window)]
           /\ writes' = [writes EXCEPT ![s] = @ + 1]
    /\ s' = s + 1
    /\ UNCHANGED <<pc, self, x, S, ret, err, op, size, peVars>>

\* range(S) is exhausted
Forward_LoopExit ==
    /\ pc = "loop"
    /\ s >= S
    /\ pc' = "limit"
    /\ UNCHANGED <<self, x, S, s, activations, calls, writes, ret, err, op, size, peVars>>

LimitOutput_Tail(act, L) ==
    LET n == act.shape[3]
        m == Min(n, L)
    IN  [shape |-> <<act.shape[1], act.shape[2], m>>,
         at |-> [k \in 0..(m - 1) |-> act.at[n - m + k]]]

\* activations[:, :, : self.output_length]
LimitOutput(act, L) ==
    LET kept == Slice(act.shape[3], 0, L)
    IN  [shape |-> <<act.shape[1], act.shape[2], Len(kept)>>,
         at |-> [k \in 0..(Len(kept) - 1) |-> act.at[kept[k + 1]]]]

\* if self.limit_output_length: ...; return activations
Forward_Return ==
    /\ pc = "limit"
    /\ ret' = IF self.limit_output_length
              THEN LimitOutput(activations, self.output_length)
              ELSE activations
    /\ pc' = "done"
    /\ UNCHANGED <<self, x, S, s, activations, calls, writes, err, op, size, peVars>>

\* a caller asks for the mask of some size
Mask_Call ==
    /\ pc = "idle"
    /\ \E n \in (-MaxNeg)..MaxSize :
          LET r == generate_square_subsequent_mask(n)
          IN  /\ size' = n
              /\ ret' = r.val
              /\ err' = r.exc
              /\ pc' = IF r.ok THEN "done" ELSE "raised"
    /\ op' = "mask"
    /\ UNCHANGED <<encVars, peVars>>

\* the 2-D encoder is constructed
PE2D_Construct ==
    /\ pc = "idle"
    /\ \E d \in 0..MaxD, h \in 1..MaxHW, w \in 1..MaxHW :
          LET r == init_2d(d, h, w)
          IN  /\ cfg' = [d_model |-> d, max_h |-> h, max_w |-> w, max_len |-> 0]
              /\ pe' = r.val
              /\ err' = r.exc
              /\ pc' = IF r.ok THEN "ready" ELSE "raised"
    /\ op' = "pe2d"
    /\ UNCHANGED <<encVars, size, inp, training, ret>>

\* the 2-D encoder is applied to a feature map of shape (B, d, H, W)
PE2D_Forward ==
    /\ pc = "ready"
    /\ op = "pe2d"
    /\ \E B \in 1..MaxB, d \in 1..MaxD, H \in 1..(MaxHW + 1), W \in 1..(MaxHW + 1) :
          LET xin == Input(<<B, d, H, W>>)
              r == forward_2d(pe, xin)
          IN  /\ inp' = xin
              /\ ret' = r.val
              /\ err' = r.exc
              /\ pc' = IF r.ok THEN "done" ELSE "raised"
    /\ UNCHANGED <<encVars, size, op, cfg, pe, training>>

\* the 1-D encoder is constructed
PE1D_Construct ==
    /\ pc = "idle"
    /\ \E d \in 0..MaxD1, n \in 1..MaxLen :
          LET r == make_pe(d, n)
          IN  /\ cfg' = [d_model |-> d, max_h |-> 0, max_w |-> 0, max_len |-> n]
              /\ pe' = r.val
              /\ err' = r.exc
              /\ pc' = IF r.ok THEN "ready" ELSE "raised"
    /\ op' = "pe1d"
    /\ UNCHANGED <<encVars, size, inp, training, ret>>

\* the 1-D encoder is applied to a sequence of shape (S, B, d) with B = 1, in
\* training or in evaluation mode; in training mode dropout zeroes any subset
\* of the elements
PE1D_Forward ==
    /\ pc = "ready"
    /\ op = "pe1d"
    /\ \E n \in 1..MaxLen, d \in 1..MaxD1, train \in BOOLEAN :
          LET xin == Input(<<n, 1, d>>)
          IN  \E drop \in (IF train /\ forward_1d(pe, xin, FALSE, {}).ok
                           THEN SUBSET Idx(forward_1d(pe, xin, FALSE, {}).val.shape)
                           ELSE {{}}) :
                 LET r == forward_1d(pe, xin, train, drop)
                 IN  /\ inp' = xin
                     /\ training' = train
                     /\ ret' = r.val
                     /\ err' = r.exc
                     /\ pc' = IF r.ok THEN "done" ELSE "raised"
    /\ UNCHANGED <<encVars, size, op, cfg, pe>>

Next ==
    \/ Forward_Call
    \/ Forward_AssertH
    \/ Forward_ComputeS
    \/ Forward_Alloc
    \/ Forward_Loop
    \/ Forward_LoopExit
    \/ Forward_Return
    \/ Mask_Call
    \/ PE2D_Construct
    \/ PE2D_Forward
    \/ PE1D_Construct
    \/ PE1D_Forward

Spec == Init /\ [][Next]_vars

(* ====================== properties: LineCNNSimple ===================== *)
\* the columns [k*WS, k*WS + WW) of window k
Span(k) == [i \in 1..self.WW |-> k * self.WS + i - 1]

InForward == op = "forward" /\ pc \in {"alloc", "loop", "limit", "done"}

\* C1: for W >= WW > 0 and WS > 0 forward computes
\* S = floor((W - WW) / WS) + 1, visits exactly S spans, span k being
\* (k*WS, k*WS + WW) of width WW; W=28,WW=28,WS=28 gives the one span (0,28)
\* and W=84,WW=28,WS=28 the three spans (0,28),(28,56),(56,84).
C1_WindowGeometry ==
    (x.W >= self.WW /\ InForward) =>
        /\ S = ((x.W - self.WW) \div self.WS) + 1
        /\ (S - 1) * self.WS <= x.W - self.WW
        /\ x.W - self.WW < S * self.WS
        /\ (pc \in {"limit", "done"} =>
              /\ Len(calls) = S
              /\ \A k \in 0..(S - 1) :
                    /\ calls[k + 1].start_w = k * self.WS
                    /\ calls[k + 1].end_w = k * self.WS + self.WW
                    /\ calls[k + 1].end_w - calls[k + 1].start_w = self.WW
              /\ (x.W = 28 /\ self.WW = 28 /\ self.WS = 28) =>
                    /\ S = 1
                    /\ <<calls[1].start_w, calls[1].end_w>> = <<0, 28>>
              /\ (x.W = 84 /\ self.WW = 28 /\ self.WS = 28) =>
                    /\ S = 3
                    /\ [k \in 1..3 |-> <<calls[k].start_w, calls[k].end_w>>]
                          = << <<0, 28>>, <<28, 56>>, <<56, 84>> >>)

C1_Witness ==
    /\ op = "forward"
    /\ pc = "done"
    /\ x.W = 84 /\ self.WW = 28 /\ self.WS = 28
    /\ Len(calls) = 3

\* C2: when W < WW (WW > 0, WS > 0) forward fails; it never returns with a
\* zero or negative S, nor with an activation tensor whose sequence axis is
\* empty.
C2_NarrowImageFails ==
    (op = "forward" /\ x.W < self.WW) => pc # "done"

\* C4: with output-length limiting and limit L the result has sequence
\* length min(S, L) and position k holds the feature extractor's output for
\* window k; without limiting the result has length S.
C4_LimitKeepsEarliest ==
    (op = "forward" /\ pc = "done") =>
        /\ ret.shape[3] = (IF self.limit_output_length
                           THEN Min(S, self.output_length) ELSE S)
        /\ \A k \in 0..(ret.shape[3] - 1) : ret.at[k] = cnn(Span(k))
        /\ DOMAIN ret.at = 0..(ret.shape[3] - 1)

C4_Witness ==
    /\ op = "forward"
    /\ pc = "done"
    /\ self.limit_output_length
    /\ S = 5 /\ self.output_length = 3
    /\ ret.shape[3] = 3
    /\ ret.at[2] = cnn(<<2, 3>>)

\* C8: an image whose height is not the configured one fails before the
\* feature extractor is invoked and before any activation slot is written;
\* nothing is allocated and nothing is returned.
C8_HeightFailsFast ==
    (op = "forward" /\ x.H # IMAGE_SIZE) =>
        /\ pc \in {"assert_H", "raised"}
        /\ (pc = "raised" => err = "AssertionError")
        /\ calls = <<>>
        /\ writes = <<>>
        /\ activations = NoTensor
        /\ ret = NoTensor

C8_Witness ==
    /\ op = "forward"
    /\ pc = "raised"
    /\ err = "AssertionError"
    /\ x.H # IMAGE_SIZE
    /\ x.W >= self.WW

C9_State ==
    (op = "forward" /\ x.W >= self.WW /\ pc \in {"loop", "limit", "done"}) =>
        /\ Len(calls) = s
        /\ pc \in {"limit", "done"} => s = S
        /\ \A k \in 0..(S - 1) : writes[k] = (IF k < s THEN 1 ELSE 0)
        /\ \A k \in 0..(s - 1) :
              /\ calls[k + 1].s = k
              /\ calls[k + 1].window = Span(k)
              /\ Len(calls[k + 1].window) = self.WW
              /\ \A i \in 1..self.WW :
                    calls[k + 1].window[i] \in 0..(x.W - 1)
              /\ activations.at[k] = cnn(calls[k + 1].window)

C9_Step ==
    (pc \in {"loop", "limit"} /\ pc' \in {"loop", "limit", "done"}) =>
        \A k \in 0..(s - 1) :
            /\ activations'.at[k] = activations.at[k]
            /\ writes'[k] = writes[k]
            /\ calls'[k + 1] = calls[k + 1]

\* C9: in a successful forward with W >= WW the feature extractor is invoked
\* exactly S times, invocation k on the WW columns [k*WS, k*WS + WW) inside
\* [0, W), its result is written to slot k, and a slot once written is
\* written no more and keeps its value.
C9_OncePerWindow == []C9_State /\ [][C9_Step]_vars

C9_Witness ==
    /\ op = "forward"
    /\ pc = "done"
    /\ self.limit_output_length
    /\ S = 4 /\ self.WW = 3 /\ self.WS = 1 /\ self.output_length = 2
    /\ Len(calls) = 4

(* ========== properties: generate_square_subsequent_mask =============== *)
\* C3: for size >= 1 the mask is size-by-size, entry (i, j) is 0 iff j <= i
\* and is -infinity for j > i; no other value occurs.
C3_CausalMask ==
    (op = "mask" /\ pc = "done" /\ size >= 1) =>
        /\ ret.shape = <<size, size>>
        /\ DOMAIN ret.at = (0..(size - 1)) \X (0..(size - 1))
        /\ \A i, j \in 0..(size - 1) :
              /\ (ret.at[<<i, j>>] = "0.0") <=> (j <= i)
              /\ (j > i) => ret.at[<<i, j>>] = "-inf"
              /\ ret.at[<<i, j>>] \in {"0.0", "-inf"}

C3_Witness ==
    /\ op = "mask" /\ pc = "done" /\ size = 4
    /\ ret.at[<<2, 3>>] = "-inf"
    /\ ret.at[<<3, 2>>] = "0.0"

\* C7: the mask generator does not fail for size >= 1 and fails for every
\* size < 1, size = 0 included.
C7_MaskFailsBelowOne ==
    (op = "mask" /\ pc \in {"done", "raised"}) =>
        ((size >= 1) <=> (pc = "done"))

(* ================= properties: PositionalEncoding ===================== *)
\* element i of the 1-D encoding of depth d at position p: sine terms at the
\* even indices, cosine terms at the odd ones
Entry1(d, p, i) ==
    IF i % 2 = 0
    THEN [fn |-> "sin", pos |-> p, k |-> i \div 2, d |-> d]
    ELSE [fn |-> "cos", pos |-> p, k |-> (i - 1) \div 2, d |-> d]

Built2D == op = "pe2d" /\ pe # NoTensor

\* C5: in a 2-D table of even depth D for (max_h, max_w) the first D/2 depth
\* indices hold the 1-D encoding of depth D/2 of the row, whatever the
\* column, and the last D/2 hold that of the column, whatever the row.
C5_TableSplitsInHalf ==
    (Built2D /\ cfg.d_model % 2 = 0) =>
        LET half == cfg.d_model \div 2
        IN  /\ pe.shape = <<cfg.d_model, cfg.max_h, cfg.max_w>>
            /\ \A c \in 0..(cfg.d_model - 1), row \in 0..(cfg.max_h - 1),
                  col \in 0..(cfg.max_w - 1) :
                  /\ c < half =>
                        /\ pe.at[<<c, row, col>>] = Entry1(half, row, c)
                        /\ pe.at[<<c, row, col>>]
                              = make_pe(half, cfg.max_h).val.at[<<row, 0, c>>]
                        /\ \A col2 \in 0..(cfg.max_w - 1) :
                              pe.at[<<c, row, col2>>] = pe.at[<<c, row, col>>]
                  /\ c >= half =>
                        /\ pe.at[<<c, row, col>>] = Entry1(half, col, c - half)
                        /\ pe.at[<<c, row, col>>]
                              = make_pe(half, cfg.max_w).val.at[<<col, 0, c - half>>]
                        /\ \A row2 \in 0..(cfg.max_h - 1) :
                              pe.at[<<c, row2, col>>] = pe.at[<<c, row, col>>]

C5_Witness ==
    /\ op = "pe2d" /\ pc = "ready"
    /\ cfg = [d_model |-> 4, max_h |-> 1, max_w |-> 2, max_len |-> 0]
    /\ pe.at[<<3, 0, 1>>] = [fn |-> "cos", pos |-> 1, k |-> 0, d |-> 2]
    /\ pe.at[<<1, 0, 1>>] = [fn |-> "cos", pos |-> 0, k |-> 0, d |-> 2]

\* the depth of the input of the encoder's forward and that of its table
InputDepth == IF op = "pe1d" THEN inp.shape[3] ELSE inp.shape[2]
TableDepth == IF op = "pe1d" THEN pe.shape[3] ELSE pe.shape[1]

Applied == op \in {"pe1d", "pe2d"} /\ pc \in {"done", "raised"} /\ inp # NoTensor

\* C6: applying the 1-D encoder to (S, B, d) or the 2-D encoder to
\* (B, d, H, W) with d different from the depth of the table fails; nothing
\* is returned.
C6_DepthMismatchFails ==
    (Applied /\ InputDepth # TableDepth) =>
        /\ pc = "raised"
        /\ err = "AssertionError"
        /\ ret = NoTensor

C6_Witness ==
    /\ Applied
    /\ op = "pe2d"
    /\ pc = "raised"
    /\ inp.shape = <<1, 1, 2, 2>>
    /\ pe.shape = <<2, 2, 2>>

\* C10: construction of the 2-D table fails exactly when embedding_depth is
\* odd: every even depth >= 2 yields a table of shape
\* (embedding_depth, max_h, max_w), every odd depth fails.
C10_FailsExactlyWhenOdd ==
    (op = "pe2d" /\ inp = NoTensor /\ pc \in {"ready", "raised"}
        /\ cfg.d_model >= 1) =>
        IF cfg.d_model % 2 = 0
        THEN pc = "ready" /\ pe.shape = <<cfg.d_model, cfg.max_h, cfg.max_w>>
        ELSE pc = "raised"

====
